---- MODULE Spec2Model ----
(***************************************************************************)
(* Model of the istio-cni chained CNI plugin, cmd/istio-cni/main.go.       *)
(*                                                                         *)
(* One process serves a sequence of invocations (skel.PluginMain           *)
(* dispatches to cmdAdd, cmdGet or cmdDel).  cmdAdd is modelled statement  *)
(* group by statement group; pc is the position inside the handler.  The   *)
(* package-level variables nsSetupBinDir, nsSetupProg and setupRedirect    *)
(* live as long as the process; everything else is local to one            *)
(* invocation.                                                             *)
(*                                                                         *)
(* A Go nil pointer is the empty sequence, a non-nil pointer a one-element *)
(* sequence.  calls, applied, printed and log record what the invocation   *)
(* has called, handed to an executor, handed to types.PrintResult and      *)
(* written to the log so far.  The log keeps the lines that tell the paths *)
(* of cmdAdd apart; the logrus level set by ConfigureLogging is not part   *)
(* of the model.                                                           *)
(*                                                                         *)
(* lastCmd is a history variable: the command of the invocation that       *)
(* returned before the current one.  Spec leaves it alone; SpecSeq, the    *)
(* specification for the properties of sequences of invocations, records   *)
(* it when a handler has returned.                                         *)
(***************************************************************************)
EXTENDS Integers, Sequences, FiniteSets, TLC

(***************************************************************************)
(* Bounds of the model.                                                    *)
(***************************************************************************)
\* largest number of containers a pod returned by the metadata query has
MaxContainers == 2

(***************************************************************************)
(* Package-level values, main.go:35-41.                                    *)
(***************************************************************************)
injectAnnotationKey == "sidecar.istio.io/inject"
sidecarStatusKey == "sidecar.istio.io/status"
DefaultNsSetupBinDir == "/opt/cni/bin"
DefaultNsSetupProg == "istio-iptables.sh"

Nil == <<>>

(***************************************************************************)
(* Inputs.                                                                 *)
(***************************************************************************)
\* values of conf.Kubernetes.ExcludeNamespaces
ExcludeLists == {<<>>, <<"kube-system">>, <<"istio-system", "kube-system">>}
\* the raw prevResult of the configuration: absent, well formed, rejected by
\* version.NewResult, rejected by current.NewResultFromResult
RawPrevResults == {"absent", "prev-0.3.1", "prev-unparsable", "prev-unconvertible"}
CniBinDirs == {"", "/custom/bin"}
IptablesScripts == {"", "custom-iptables.sh"}
\* args.StdinData: either bytes json.Unmarshal rejects, or a configuration
StdinData ==
    {[json |-> FALSE, RawPrevResult |-> "absent", ExcludeNamespaces |-> <<>>,
      CniBinDir |-> "", IptablesScript |-> ""]} \cup
    [json : {TRUE}, RawPrevResult : RawPrevResults, ExcludeNamespaces : ExcludeLists,
     CniBinDir : CniBinDirs, IptablesScript : IptablesScripts]
\* args.Args (CNI_ARGS): whether types.LoadArgs accepts it, and the two
\* identifiers it carries
PodNames == {"", "mypod"}
PodNamespaces == {"", "kube-system", "Kube-System"}
CniArgs == [ok : BOOLEAN, K8S_POD_NAME : PodNames, K8S_POD_NAMESPACE : PodNamespaces]
Netns == "/var/run/netns/cni-1"
Commands == {"ADD", "GET", "DEL"}

\* what getKubePodInfo can return
ContainerNames == <<"istio-proxy", "app", "app2", "app3">>
ContainerLists == {SubSeq(ContainerNames, 1, n) : n \in 0..MaxContainers}
InjectValues == {"true", "false", "not-a-bool", "0"}
StatusValues == {"{}", "false"}
AnnotationMaps ==
    {[k \in {} |-> ""]} \cup
    {[k \in {injectAnnotationKey} |-> v] : v \in InjectValues} \cup
    {[k \in {sidecarStatusKey} |-> v] : v \in StatusValues} \cup
    {[k \in {injectAnnotationKey, sidecarStatusKey} |->
         IF k = injectAnnotationKey THEN v ELSE w] : v \in InjectValues, w \in StatusValues}
PortLists == {<<>>, <<"80">>, <<"443", "80", "443">>}
ProxyUIDs == {-1, 1337}
ProxyGIDs == {-1, 1337}
PodInfos ==
    [hasProxy : BOOLEAN, containers : ContainerLists, annotations : AnnotationMaps,
     ports : PortLists, proxyUID : ProxyUIDs, proxyGID : ProxyGIDs]
NoPod ==
    [hasProxy |-> FALSE, containers |-> <<>>, annotations |-> [k \in {} |-> ""],
     ports |-> <<>>, proxyUID |-> -1, proxyGID |-> -1]
\* values of the override hook: nil, or a test stub
SetupRedirects == {"nil", "stub"}

(***************************************************************************)
(* parseConfig, main.go:91-117.                                            *)
(***************************************************************************)
\* current.NewResultFromResult(version.NewResult(...)): the previous result
\* converted to the current version
ConvertedResult(raw) == [CNIVersion |-> "current", content |-> raw]

parseConfigErr(stdin) ==
    IF ~stdin.json THEN "failed to parse network configuration"
    ELSE IF stdin.RawPrevResult = "absent" THEN "nil"
    ELSE IF stdin.RawPrevResult = "prev-unparsable" THEN "could not parse prevResult"
    ELSE IF stdin.RawPrevResult = "prev-unconvertible"
         THEN "could not convert result to current version"
    ELSE "nil"

parseConfig(stdin) ==
    [PrevResult |-> IF stdin.RawPrevResult = "absent" THEN Nil
                    ELSE <<ConvertedResult(stdin.RawPrevResult)>>,
     ExcludeNamespaces |-> stdin.ExcludeNamespaces,
     CniBinDir |-> stdin.CniBinDir,
     IptablesScript |-> stdin.IptablesScript]

NoConf ==
    [PrevResult |-> Nil, ExcludeNamespaces |-> <<>>, CniBinDir |-> "", IptablesScript |-> ""]
NoStdin ==
    [json |-> FALSE, RawPrevResult |-> "absent", ExcludeNamespaces |-> <<>>,
     CniBinDir |-> "", IptablesScript |-> ""]
NoArgs == [ok |-> FALSE, K8S_POD_NAME |-> "", K8S_POD_NAMESPACE |-> ""]

VARIABLES
    nsSetupBinDir, nsSetupProg, setupRedirect,
    cmd, pc, stdin, args, conf, podName, podNamespace, excludePod, pod,
    redirect, ret, calls, applied, printed, log,
    lastCmd

globals == <<nsSetupBinDir, nsSetupProg, setupRedirect>>
inputs == <<cmd, stdin, args>>
locals == <<conf, podName, podNamespace, excludePod, pod, redirect>>
trace == <<calls, applied, printed, log>>
vars == <<globals, inputs, locals, pc, ret, trace, lastCmd>>

Init ==
    /\ nsSetupBinDir = DefaultNsSetupBinDir
    /\ nsSetupProg = DefaultNsSetupProg
    /\ setupRedirect \in SetupRedirects
    /\ cmd = "none"
    /\ pc = "idle"
    /\ stdin = NoStdin
    /\ args = NoArgs
    /\ conf = NoConf
    /\ podName = ""
    /\ podNamespace = ""
    /\ excludePod = FALSE
    /\ pod = NoPod
    /\ redirect = Nil
    /\ ret = "running"
    /\ calls = <<>>
    /\ applied = <<>>
    /\ printed = <<>>
    /\ log = <<>>
    /\ lastCmd = "none"

\* skel.PluginMain hands one request to its handler
Invoke ==
    /\ pc = "idle"
    /\ \E c \in Commands, s \in StdinData, a \in CniArgs :
          /\ cmd' = c
          /\ stdin' = s
          /\ args' = a
    /\ pc' = IF cmd' = "GET" THEN "cmdGet" ELSE "parseConfig"
    /\ UNCHANGED <<lastCmd, globals, locals, ret, trace>>

\* one entry of calls: the function called and the error it returned
Call(fn, err) == [fn |-> fn, err |-> err]

Return(err) ==
    /\ pc' = "done"
    /\ ret' = err

\* mutant: the error of parseConfig is not returned
cmdAdd_parseConfig_IgnoreErr ==
    /\ pc = "parseConfig"
    /\ cmd = "ADD"
    /\ calls' = Append(calls, Call("parseConfig", parseConfigErr(stdin)))
    /\ conf' = parseConfig(stdin)
    /\ pc' = "LoadArgs"
    /\ UNCHANGED <<lastCmd, globals, inputs, podName, podNamespace, excludePod, pod, redirect,
                   ret, applied, printed, log>>

\* both handlers start with conf, err := parseConfig(args.StdinData)
cmdAdd_parseConfig ==
    /\ pc = "parseConfig"
    /\ cmd = "ADD"
    /\ calls' = Append(calls, Call("parseConfig", parseConfigErr(stdin)))
    /\ IF parseConfigErr(stdin) # "nil"
       THEN /\ Return(parseConfigErr(stdin))
            /\ UNCHANGED conf
       ELSE /\ conf' = parseConfig(stdin)
            /\ pc' = "LoadArgs"
            /\ UNCHANGED ret
    /\ UNCHANGED <<lastCmd, globals, inputs, podName, podNamespace, excludePod, pod, redirect,
                   applied, printed, log>>

\* mutant: a DEL that was not preceded by an ADD finds nothing to delete and
\* fails
cmdDel_parseConfig_NeedsAdd ==
    /\ pc = "parseConfig"
    /\ cmd = "DEL"
    /\ calls' = Append(calls, Call("parseConfig", parseConfigErr(stdin)))
    /\ IF parseConfigErr(stdin) # "nil"
       THEN /\ Return(parseConfigErr(stdin))
            /\ UNCHANGED conf
       ELSE /\ conf' = parseConfig(stdin)
            /\ Return(IF lastCmd = "ADD" THEN "nil" ELSE "nothing to delete")
    /\ UNCHANGED <<lastCmd, globals, inputs, podName, podNamespace, excludePod, pod, redirect,
                   applied, printed, log>>

cmdDel_parseConfig ==
    /\ pc = "parseConfig"
    /\ cmd = "DEL"
    /\ calls' = Append(calls, Call("parseConfig", parseConfigErr(stdin)))
    /\ IF parseConfigErr(stdin) # "nil"
       THEN /\ Return(parseConfigErr(stdin))
            /\ UNCHANGED conf
       ELSE /\ conf' = parseConfig(stdin)
            /\ Return("nil")
    /\ UNCHANGED <<lastCmd, globals, inputs, podName, podNamespace, excludePod, pod, redirect,
                   applied, printed, log>>

\* mutant: GET is implemented as a successful no-op
cmdGet_ReturnsNil ==
    /\ pc = "cmdGet"
    /\ Return("nil")
    /\ UNCHANGED <<lastCmd, globals, inputs, locals, trace>>

cmdGet ==
    /\ pc = "cmdGet"
    /\ Return("not implemented")
    /\ UNCHANGED <<lastCmd, globals, inputs, locals, trace>>

\* types.LoadArgs, the two package-level assignments and the identifiers
cmdAdd_LoadArgs ==
    /\ pc = "LoadArgs"
    /\ calls' = Append(calls, Call("LoadArgs", IF args.ok THEN "nil" ELSE "LoadArgs error"))
    /\ IF ~args.ok
       THEN /\ Return("LoadArgs error")
            /\ UNCHANGED <<nsSetupBinDir, nsSetupProg, podName, podNamespace>>
       ELSE /\ nsSetupBinDir' = IF conf.CniBinDir # "" THEN conf.CniBinDir ELSE nsSetupBinDir
            /\ nsSetupProg' = IF conf.IptablesScript # "" THEN conf.IptablesScript
                              ELSE nsSetupProg
            /\ podName' = args.K8S_POD_NAME
            /\ podNamespace' = args.K8S_POD_NAMESPACE
            /\ pc' = "gate"
            /\ UNCHANGED ret
    /\ UNCHANGED <<lastCmd, setupRedirect, inputs, conf, excludePod, pod, redirect,
                   applied, printed, log>>

\* mutant: only the first entry of the list is compared
NamespaceExcluded_FirstOnly(ns, excludeNamespaces) ==
    Len(excludeNamespaces) > 0 /\ ns = excludeNamespaces[1]

\* the loop over conf.Kubernetes.ExcludeNamespaces
NamespaceExcluded(ns, excludeNamespaces) ==
    \E i \in 1..Len(excludeNamespaces) : ns = excludeNamespaces[i]

\* mutant: the pod name is not checked
IsKubernetesPod_NamespaceOnly(ns, name) == ns # ""

\* if podNamespace != "" && podName != ""
IsKubernetesPod(ns, name) == ns # "" /\ name # ""

cmdAdd_Gate ==
    /\ pc = "gate"
    /\ IF IsKubernetesPod(podNamespace, podName)
       THEN /\ excludePod' = NamespaceExcluded(podNamespace, conf.ExcludeNamespaces)
            /\ IF ~excludePod'
               THEN /\ pc' = "newKubeClient"
                    /\ UNCHANGED log
               ELSE /\ pc' = "PrintResult"
                    /\ log' = Append(log, "Pod excluded")
       ELSE /\ pc' = "PrintResult"
            /\ log' = Append(log, "No Kubernetes Data")
            /\ UNCHANGED excludePod
    /\ UNCHANGED <<lastCmd, globals, inputs, conf, podName, podNamespace, pod, redirect, ret,
                   calls, applied, printed>>

cmdAdd_newKubeClient ==
    /\ pc = "newKubeClient"
    /\ \E err \in {"nil", "newKubeClient error"} :
          /\ calls' = Append(calls, Call("newKubeClient", err))
          /\ IF err # "nil"
             THEN Return(err)
             ELSE /\ pc' = "getKubePodInfo"
                  /\ UNCHANGED ret
    /\ UNCHANGED <<lastCmd, globals, inputs, locals, applied, printed, log>>

\* mutant: a failed query is repeated once
cmdAdd_getKubePodInfo_Retry ==
    /\ pc = "getKubePodInfo"
    /\ \/ /\ calls' = Append(calls, Call("getKubePodInfo", "getKubePodInfo error"))
          /\ IF calls[Len(calls)].fn = "getKubePodInfo"
             THEN Return("getKubePodInfo error")
             ELSE UNCHANGED <<pc, ret>>
          /\ log' = Append(log, "Error getting Pod data")
          /\ UNCHANGED pod
       \/ /\ calls' = Append(calls, Call("getKubePodInfo", "nil"))
          /\ pod' \in PodInfos
          /\ pc' = "checkAnnotations"
          /\ log' = Append(log, "Found containers")
          /\ UNCHANGED ret
    /\ UNCHANGED <<lastCmd, globals, inputs, conf, podName, podNamespace, excludePod, redirect,
                   applied, printed>>

cmdAdd_getKubePodInfo ==
    /\ pc = "getKubePodInfo"
    /\ \/ /\ calls' = Append(calls, Call("getKubePodInfo", "getKubePodInfo error"))
          /\ Return("getKubePodInfo error")
          /\ log' = Append(log, "Error getting Pod data")
          /\ UNCHANGED pod
       \/ /\ calls' = Append(calls, Call("getKubePodInfo", "nil"))
          /\ pod' \in PodInfos
          /\ pc' = "checkAnnotations"
          /\ log' = Append(log, "Found containers")
          /\ UNCHANGED ret
    /\ UNCHANGED <<lastCmd, globals, inputs, conf, podName, podNamespace, excludePod, redirect,
                   applied, printed>>

\* strconv.ParseBool
ParseBoolTrue == {"1", "t", "T", "TRUE", "true", "True"}
ParseBoolFalse == {"0", "f", "F", "FALSE", "false", "False"}
ParseBoolErr(str) == str \notin ParseBoolTrue \cup ParseBoolFalse
ParseBool(str) == str \in ParseBoolTrue

\* mutant: a single container is enough
HasSidecar_AtLeastOne(hasProxy, containers) == hasProxy /\ Len(containers) >= 1

\* if hasProxy && len(containers) > 1
HasSidecar(hasProxy, containers) == hasProxy /\ Len(containers) > 1

\* mutant: a value that does not parse excludes the pod as well
InjectDisabled_Strict(annotations) ==
    /\ injectAnnotationKey \in DOMAIN annotations
    /\ (ParseBoolErr(annotations[injectAnnotationKey])
          \/ ~ParseBool(annotations[injectAnnotationKey]))

\* the inject annotation is present, parses as a boolean and is false
InjectDisabled(annotations) ==
    /\ injectAnnotationKey \in DOMAIN annotations
    /\ ~ParseBoolErr(annotations[injectAnnotationKey])
    /\ ~ParseBool(annotations[injectAnnotationKey])

\* if _, ok := annotations[sidecarStatusKey]; !ok
SidecarStatusMissing(annotations) == sidecarStatusKey \notin DOMAIN annotations

\* the log lines and map lookups of the annotation checks, in program order
InjectLog(annotations) ==
    IF injectAnnotationKey \in DOMAIN annotations
    THEN <<"Pod contains inject annotation">> \o
         (IF InjectDisabled(annotations)
          THEN <<"Pod excluded due to inject-disabled annotation">> ELSE <<>>)
    ELSE <<>>

\* mutant: the sidecar-status check is the else branch of the inject check
StatusLog_ElseIf(annotations) ==
    IF ~InjectDisabled(annotations) /\ SidecarStatusMissing(annotations)
    THEN <<"Pod excluded due to not containing sidecar annotation">> ELSE <<>>

StatusLog(annotations) ==
    IF SidecarStatusMissing(annotations)
    THEN <<"Pod excluded due to not containing sidecar annotation">> ELSE <<>>

\* mutant: the sidecar-status check is dropped
AnnotationsExclude_InjectOnly(annotations) == InjectDisabled(annotations)

\* excludePod after the two annotation checks (it is FALSE before them)
AnnotationsExclude(annotations) ==
    InjectDisabled(annotations) \/ SidecarStatusMissing(annotations)

cmdAdd_checkAnnotations ==
    /\ pc = "checkAnnotations"
    /\ IF HasSidecar(pod.hasProxy, pod.containers)
       THEN /\ calls' = calls \o <<Call("annotations[inject]", "nil"),
                                      Call("annotations[status]", "nil")>>
            /\ excludePod' = (excludePod \/ AnnotationsExclude(pod.annotations))
            /\ log' = log \o <<"Checking annotations prior to redirect for Istio proxy">>
                          \o InjectLog(pod.annotations) \o StatusLog(pod.annotations)
                          \o (IF ~excludePod' THEN <<"setting up redirect">> ELSE <<>>)
            /\ pc' = IF ~excludePod' THEN "NewRedirect" ELSE "PrintResult"
       ELSE /\ pc' = "PrintResult"
            /\ UNCHANGED <<calls, excludePod, log>>
    /\ UNCHANGED <<lastCmd, globals, inputs, conf, podName, podNamespace, pod, redirect, ret,
                   applied, printed>>

\* NewRedirect (redirect.go): the ports must be non-empty and both
\* identities resolved and non-negative
NewRedirectErr(proxyUID, proxyGID, ports, annotations) ==
    IF ports = <<>> \/ proxyUID < 0 \/ proxyGID < 0
    THEN "InvalidRedirectParameters" ELSE "nil"

NewRedirect(proxyUID, proxyGID, ports, annotations) ==
    [proxyUID |-> proxyUID, proxyGID |-> proxyGID, ports |-> ports,
     annotations |-> annotations]

\* mutant: the error of NewRedirect is ignored
cmdAdd_NewRedirect_IgnoreErr ==
    /\ pc = "NewRedirect"
    /\ LET err == NewRedirectErr(pod.proxyUID, pod.proxyGID, pod.ports, pod.annotations)
       IN calls' = Append(calls, Call("NewRedirect", err))
    /\ redirect' = <<NewRedirect(pod.proxyUID, pod.proxyGID, pod.ports, pod.annotations)>>
    /\ pc' = "redirect"
    /\ UNCHANGED <<lastCmd, globals, inputs, conf, podName, podNamespace, excludePod, pod,
                   ret, applied, printed, log>>

cmdAdd_NewRedirect ==
    /\ pc = "NewRedirect"
    /\ LET err == NewRedirectErr(pod.proxyUID, pod.proxyGID, pod.ports, pod.annotations)
       IN /\ calls' = Append(calls, Call("NewRedirect", err))
          /\ IF err # "nil"
             THEN /\ Return(err)
                  /\ log' = Append(log, "Pod redirect failed due to bad params")
                  /\ UNCHANGED redirect
             ELSE /\ redirect' = <<NewRedirect(pod.proxyUID, pod.proxyGID, pod.ports,
                                               pod.annotations)>>
                  /\ pc' = "redirect"
                  /\ UNCHANGED <<ret, log>>
    /\ UNCHANGED <<lastCmd, globals, inputs, conf, podName, podNamespace, excludePod, pod,
                   applied, printed>>

\* the first occurrences of the elements of a sequence, in order
RECURSIVE Dedup(_)
Dedup(seq) ==
    IF seq = <<>> THEN <<>>
    ELSE LET front == Dedup(SubSeq(seq, 1, Len(seq) - 1))
             last == seq[Len(seq)]
         IN IF \E i \in DOMAIN front : front[i] = last THEN front ELSE Append(front, last)

\* mutant: the override is handed the ports without their duplicates
cmdAdd_setupRedirect_DedupPorts ==
    /\ pc = "redirect"
    /\ setupRedirect # "nil"
    /\ \E err \in {"nil", "setupRedirect error"} :
          /\ calls' = Append(calls, Call("setupRedirect", err))
          /\ applied' = Append(applied, [fn |-> "setupRedirect", netns |-> Netns,
                                         ports |-> Dedup(pod.ports), err |-> err])
    /\ pc' = "PrintResult"
    /\ UNCHANGED <<lastCmd, globals, inputs, locals, ret, printed, log>>

\* if setupRedirect != nil { _ = setupRedirect(args.Netns, ports) }
cmdAdd_setupRedirect ==
    /\ pc = "redirect"
    /\ setupRedirect # "nil"
    /\ \E err \in {"nil", "setupRedirect error"} :
          /\ calls' = Append(calls, Call("setupRedirect", err))
          /\ applied' = Append(applied, [fn |-> "setupRedirect", netns |-> Netns,
                                         ports |-> pod.ports, err |-> err])
    /\ pc' = "PrintResult"
    /\ UNCHANGED <<lastCmd, globals, inputs, locals, ret, printed, log>>

\* mutant: a failed doRedirect is tried a second time
cmdAdd_doRedirect_Retry ==
    /\ pc = "redirect"
    /\ setupRedirect = "nil"
    /\ \E err \in {"nil", "doRedirect error"} :
          /\ calls' = Append(calls, Call("doRedirect", err))
          /\ applied' = Append(applied, [fn |-> "doRedirect", netns |-> Netns,
                                         ports |-> redirect[1].ports, err |-> err])
          /\ IF err # "nil" /\ applied # <<>>
             THEN Return(err)
             ELSE /\ pc' = IF err # "nil" THEN "redirect" ELSE "PrintResult"
                  /\ UNCHANGED ret
    /\ UNCHANGED <<lastCmd, globals, inputs, locals, printed, log>>

\* else if err := redirect.doRedirect(args.Netns); err != nil { return err }
cmdAdd_doRedirect ==
    /\ pc = "redirect"
    /\ setupRedirect = "nil"
    /\ \E err \in {"nil", "doRedirect error"} :
          /\ calls' = Append(calls, Call("doRedirect", err))
          /\ applied' = Append(applied, [fn |-> "doRedirect", netns |-> Netns,
                                         ports |-> redirect[1].ports, err |-> err])
          /\ IF err # "nil"
             THEN Return(err)
             ELSE /\ pc' = "PrintResult"
                  /\ UNCHANGED ret
    /\ UNCHANGED <<lastCmd, globals, inputs, locals, printed, log>>

\* the result handed to types.PrintResult; printed records it.  PrintResult
\* is the CNI library's encoder to stdout: its return value is the handler's,
\* and it is taken to be nil
EmptyResult == [CNIVersion |-> "current", content |-> "empty"]
\* mutant: the previous result is dropped
Result_AlwaysEmpty(c) == EmptyResult

Result(c) == IF c.PrevResult = Nil THEN EmptyResult ELSE c.PrevResult[1]

cmdAdd_PrintResult ==
    /\ pc = "PrintResult"
    /\ calls' = Append(calls, Call("PrintResult", "nil"))
    /\ printed' = Append(printed, Result(conf))
    /\ Return("nil")
    /\ UNCHANGED <<lastCmd, globals, inputs, locals, applied, log>>

\* the handler has returned; the process takes the next request
Exit ==
    /\ pc = "done"
    /\ pc' = "idle"
    /\ cmd' = "none"
    /\ stdin' = NoStdin
    /\ args' = NoArgs
    /\ conf' = NoConf
    /\ podName' = ""
    /\ podNamespace' = ""
    /\ excludePod' = FALSE
    /\ pod' = NoPod
    /\ redirect' = Nil
    /\ ret' = "running"
    /\ calls' = <<>>
    /\ applied' = <<>>
    /\ printed' = <<>>
    /\ log' = <<>>
    /\ UNCHANGED <<lastCmd, globals>>

\* Exit, recording the command that has just been served
ExitRecord ==
    /\ pc = "done"
    /\ pc' = "idle"
    /\ lastCmd' = cmd
    /\ cmd' = "none"
    /\ stdin' = NoStdin
    /\ args' = NoArgs
    /\ conf' = NoConf
    /\ podName' = ""
    /\ podNamespace' = ""
    /\ excludePod' = FALSE
    /\ pod' = NoPod
    /\ redirect' = Nil
    /\ ret' = "running"
    /\ calls' = <<>>
    /\ applied' = <<>>
    /\ printed' = <<>>
    /\ log' = <<>>
    /\ UNCHANGED globals

Next ==
    \/ Invoke
    \/ cmdAdd_parseConfig
    \/ cmdDel_parseConfig
    \/ cmdGet
    \/ cmdAdd_LoadArgs
    \/ cmdAdd_Gate
    \/ cmdAdd_newKubeClient
    \/ cmdAdd_getKubePodInfo
    \/ cmdAdd_checkAnnotations
    \/ cmdAdd_NewRedirect
    \/ cmdAdd_setupRedirect
    \/ cmdAdd_doRedirect
    \/ cmdAdd_PrintResult
    \/ Exit

Spec == Init /\ [][Next]_vars

NextSeq ==
    \/ Invoke
    \/ cmdAdd_parseConfig
    \/ cmdDel_parseConfig
    \/ cmdGet
    \/ cmdAdd_LoadArgs
    \/ cmdAdd_Gate
    \/ cmdAdd_newKubeClient
    \/ cmdAdd_getKubePodInfo
    \/ cmdAdd_checkAnnotations
    \/ cmdAdd_NewRedirect
    \/ cmdAdd_setupRedirect
    \/ cmdAdd_doRedirect
    \/ cmdAdd_PrintResult
    \/ ExitRecord

SpecSeq == Init /\ [][NextSeq]_vars

(***************************************************************************)
(* Vocabulary of the properties.                                           *)
(***************************************************************************)
Called(fn) == \E i \in DOMAIN calls : calls[i].fn = fn
CallCount(fn) == Cardinality({i \in DOMAIN calls : calls[i].fn = fn})
Failed(fn) == \E i \in DOMAIN calls : calls[i].fn = fn /\ calls[i].err # "nil"
Succeeded(fn) == \E i \in DOMAIN calls : calls[i].fn = fn /\ calls[i].err = "nil"
Logged(msg) == \E i \in DOMAIN log : log[i] = msg
ExecutorCalls == CallCount("doRedirect") + CallCount("setupRedirect")

\* the identifiers have been loaded from the CNI arguments
IdentifiersLoaded == cmd = "ADD" /\ Succeeded("LoadArgs")
\* the namespace equals some entry of the exclusion list
InExcludeList == \E i \in DOMAIN conf.ExcludeNamespaces :
                     conf.ExcludeNamespaces[i] = podNamespace
\* the gate turns the pod away
GateRejects == IdentifiersLoaded /\ (podNamespace = "" \/ podName = "" \/ InExcludeList)
\* the pod passed the gate and its metadata has been returned
MetadataReturned == cmd = "ADD" /\ Succeeded("getKubePodInfo")
\* the values strconv.ParseBool reads as false
FalseLiterals == {"0", "f", "F", "FALSE", "false", "False"}
InjectIsFalse == /\ injectAnnotationKey \in DOMAIN pod.annotations
                 /\ pod.annotations[injectAnnotationKey] \in FalseLiterals
StatusAbsent == sidecarStatusKey \notin DOMAIN pod.annotations
NoSidecar == ~pod.hasProxy \/ Len(pod.containers) <= 1
\* the metadata makes the pod ineligible
MetadataRejects == MetadataReturned /\ (NoSidecar \/ InjectIsFalse \/ StatusAbsent)
\* the eligibility rules have run for this pod
Decided == MetadataReturned /\ pc # "checkAnnotations"

\* C1: an ADD whose decision is not Allow (gate turned the pod away, or the
\* metadata makes it ineligible) never calls doRedirect or setupRedirect, and
\* it returns nil after handing a result to PrintResult.
C1_NoRedirectUnlessAllowed ==
    (GateRejects \/ MetadataRejects) =>
        /\ applied = <<>>
        /\ ExecutorCalls = 0
        /\ pc = "done" => (ret = "nil" /\ Called("PrintResult"))

C1_Witness ==
    /\ MetadataRejects
    /\ ~NoSidecar
    /\ StatusAbsent
    /\ pc = "done"
    /\ ret = "nil"

\* C2: when the executor (doRedirect or the setupRedirect substitute) returned
\* an error, the finished ADD returns that error and has printed no result.
C2_ExecutorErrorIsFatal ==
    (cmd = "ADD" /\ pc = "done" /\ (Failed("doRedirect") \/ Failed("setupRedirect"))) =>
        /\ ret = applied[Len(applied)].err
        /\ printed = <<>>

\* C3: an ADD calls the executor at most once, and only after the rules
\* allowed the pod and NewRedirect returned without error.
C3_ExecutorAtMostOnce ==
    /\ ExecutorCalls <= 1
    /\ Len(applied) = ExecutorCalls
    /\ ExecutorCalls = 1 =>
          /\ cmd = "ADD"
          /\ ~GateRejects
          /\ MetadataReturned
          /\ ~(NoSidecar \/ InjectIsFalse \/ StatusAbsent)
          /\ Logged("setting up redirect")
          /\ Succeeded("NewRedirect")
          /\ ~Failed("NewRedirect")
          /\ redirect # Nil

C3_Witness ==
    /\ ExecutorCalls = 1
    /\ Called("doRedirect")
    /\ pc = "done"

InjectReason == "Pod excluded due to inject-disabled annotation"
StatusReason == "Pod excluded due to not containing sidecar annotation"
IsReason(msg) == msg \in {InjectReason, StatusReason}
\* the exclusion reasons the annotation rules have logged, in order
ExclusionReasons == SelectSeq(log, IsReason)

C6_MetadataFailureIsFatal ==
    /\ CallCount("newKubeClient") <= 1
    /\ CallCount("getKubePodInfo") <= 1
    /\ (Failed("newKubeClient") \/ Failed("getKubePodInfo")) =>
          /\ pc = "done"
          /\ ret = calls[Len(calls)].err
          /\ calls[Len(calls)].fn \in {"newKubeClient", "getKubePodInfo"}
          /\ ~Called("NewRedirect")
          /\ ExecutorCalls = 0
          /\ applied = <<>>
          /\ printed = <<>>

C6_Witness ==
    /\ Failed("getKubePodInfo")
    /\ pc = "done"
    /\ ret = "getKubePodInfo error"

\* the conditions under which the pod is to be redirected
InjectAllows ==
    \/ injectAnnotationKey \notin DOMAIN pod.annotations
    \/ pod.annotations[injectAnnotationKey] \notin FalseLiterals
AllowConditions ==
    /\ pod.hasProxy
    /\ Len(pod.containers) > 1
    /\ sidecarStatusKey \in DOMAIN pod.annotations
    /\ InjectAllows

\* C7: once the pod is allowed NewRedirect is called exactly once (never
\* more than once); when it fails the ADD is over with that error, no
\* redirect value exists, no executor has run and nothing is printed.
C7_NewRedirectOnceAndFatal ==
    /\ CallCount("NewRedirect") <= 1
    /\ (Decided /\ AllowConditions /\ pc # "NewRedirect") => CallCount("NewRedirect") = 1
    /\ Failed("NewRedirect") =>
          /\ pc = "done"
          /\ ret = calls[Len(calls)].err
          /\ calls[Len(calls)].fn = "NewRedirect"
          /\ redirect = Nil
          /\ ExecutorCalls = 0
          /\ applied = <<>>
          /\ printed = <<>>

C7_Witness ==
    /\ Failed("NewRedirect")
    /\ pc = "done"
    /\ ret = "InvalidRedirectParameters"

\* C8: for a pod whose metadata was returned, the rules allow it exactly when
\* hasProxy holds, there is more than one container, the sidecar-status key
\* is present and the inject annotation is absent, true or unparsable; a
\* false inject value or a missing sidecar-status key excludes it.
C8_AllowIff ==
    Decided =>
        /\ Logged("setting up redirect") <=> AllowConditions
        /\ (pc = "NewRedirect" \/ Called("NewRedirect")) <=> AllowConditions
        /\ (~NoSidecar /\ (InjectIsFalse \/ StatusAbsent)) => excludePod

C8_Witness ==
    /\ Decided
    /\ injectAnnotationKey \in DOMAIN pod.annotations
    /\ pod.annotations[injectAnnotationKey] = "not-a-bool"
    /\ Logged("setting up redirect")
    /\ Called("NewRedirect")

ExpectedResult ==
    IF stdin.RawPrevResult = "absent"
    THEN [CNIVersion |-> "current", content |-> "empty"]
    ELSE conf.PrevResult[1]

\* C10: an ADD that returns nil has printed exactly one result: the previous
\* result of the configuration when it has one, the empty result otherwise,
\* whatever was decided about the pod; no ADD prints more than one.
C10_OneResultPassedThrough ==
    /\ Len(printed) <= 1
    /\ (cmd = "ADD" /\ pc = "done" /\ ret = "nil") =>
          /\ Len(printed) = 1
          /\ CallCount("PrintResult") = 1
          /\ printed[1] = ExpectedResult
          /\ stdin.RawPrevResult # "absent" =>
                (conf.PrevResult # Nil /\ printed[1].content = stdin.RawPrevResult)

C10_Witness ==
    /\ cmd = "ADD"
    /\ pc = "done"
    /\ ret = "nil"
    /\ stdin.RawPrevResult # "absent"
    /\ Logged("setting up redirect")
    /\ printed = <<conf.PrevResult[1]>>

\* the namespace-setup settings the configuration of this ADD calls for
OwnBinDir == IF conf.CniBinDir # "" THEN conf.CniBinDir ELSE DefaultNsSetupBinDir
OwnProg == IF conf.IptablesScript # "" THEN conf.IptablesScript ELSE DefaultNsSetupProg

\* C11: no invocation leaves state behind that a later one runs with: the
\* namespace-setup bin directory and script name in force during an ADD are
\* the ones its own configuration gives (the defaults when it names none),
\* whatever invocations ran before it.
C11_SettingsFromOwnInputsOnly ==
    (cmd = "ADD" /\ Succeeded("LoadArgs")) =>
        /\ nsSetupBinDir = OwnBinDir
        /\ nsSetupProg = OwnProg

\* the configuration on stdin is one parseConfig accepts
WellFormedStdin == stdin.json /\ stdin.RawPrevResult \in {"absent", "prev-0.3.1"}

\* C12: a DEL does nothing but parse its configuration: it calls neither the
\* metadata query nor NewRedirect nor an executor, prints and logs nothing,
\* and with a well-formed configuration it returns nil, whatever invocation
\* (none, an ADD, a GET or another DEL) came before it.
C12_DelIsNoOp ==
    cmd = "DEL" =>
        /\ Len(calls) <= 1
        /\ \A i \in DOMAIN calls : calls[i].fn = "parseConfig"
        /\ applied = <<>>
        /\ printed = <<>>
        /\ redirect = Nil
        /\ pc \in {"parseConfig", "done"}
        /\ (pc = "done" /\ WellFormedStdin) => ret = "nil"

\* a second DEL in a row has returned nil
C12_Witness ==
    /\ cmd = "DEL"
    /\ lastCmd = "DEL"
    /\ WellFormedStdin
    /\ pc = "done"
    /\ ret = "nil"

ConfigurationErrors ==
    {"failed to parse network configuration", "could not parse prevResult",
     "could not convert result to current version"}

C13_AbortStep ==
    /\ (cmd = "ADD" /\ pc = "parseConfig" /\ ~WellFormedStdin) =>
          /\ pc' = "done"
          /\ ret' \in ConfigurationErrors
          /\ calls' = <<Call("parseConfig", ret')>>
          /\ applied' = <<>>
          /\ printed' = <<>>
          /\ UNCHANGED <<globals, locals, log>>
    /\ (cmd = "ADD" /\ pc = "done" /\ Failed("parseConfig")) =>
          /\ pc' = "idle"
          /\ UNCHANGED globals

\* C13: the step of an ADD that parses a malformed configuration ends the
\* handler with the parse error: parseConfig is the only call made, nothing
\* is applied or printed, no line of a later stage is logged, no local and
\* no package variable changes;
\* the next step of the process is the return to the caller.
C13_MalformedConfigAborts == [][C13_AbortStep]_vars

\* an ADD has been aborted whose configuration names a bin directory and a
\* script but whose prevResult is malformed
C13_Witness ==
    /\ cmd = "ADD"
    /\ pc = "done"
    /\ Failed("parseConfig")
    /\ stdin.json
    /\ stdin.CniBinDir # ""
    /\ stdin.IptablesScript # ""
    /\ nsSetupBinDir = DefaultNsSetupBinDir
    /\ nsSetupProg = DefaultNsSetupProg

C14_GetStep ==
    /\ (cmd # "GET" /\ cmd' = "GET") => pc' = "cmdGet"
    /\ (cmd = "GET" /\ pc = "cmdGet") =>
          /\ pc' = "done"
          /\ ret' = "not implemented"
          /\ calls' = <<>>
          /\ applied' = <<>>
          /\ printed' = <<>>
          /\ UNCHANGED <<globals, locals, log>>
    /\ (cmd = "GET" /\ pc = "done") =>
          /\ pc' = "idle"
          /\ UNCHANGED globals

\* C14: a GET goes straight to cmdGet, whose only step returns "not
\* implemented": it calls nothing (no parseConfig, no metadata query, no
\* NewRedirect, no executor, no PrintResult) and changes no local and no
\* package variable, whatever its input and whatever earlier invocations
\* left behind.
C14_GetNotImplemented == [][C14_GetStep]_vars

\* a GET with unparsable stdin has returned in a process whose settings an
\* earlier ADD has changed
C14_Witness ==
    /\ cmd = "GET"
    /\ pc = "done"
    /\ ret = "not implemented"
    /\ ~stdin.json
    /\ nsSetupBinDir # DefaultNsSetupBinDir
    /\ calls = <<>>

\* the position of a call in the order of the stages
StageRank(fn) ==
    CASE fn = "parseConfig" -> 1
      [] fn = "LoadArgs" -> 2
      [] fn = "newKubeClient" -> 3
      [] fn = "getKubePodInfo" -> 4
      [] fn = "annotations[inject]" -> 5
      [] fn = "annotations[status]" -> 6
      [] fn = "NewRedirect" -> 7
      [] fn \in {"doRedirect", "setupRedirect"} -> 8
      [] fn = "PrintResult" -> 9
\* the gate found a Kubernetes pod outside the excluded namespaces
GatePassed ==
    IdentifiersLoaded /\ podNamespace # "" /\ podName # "" /\ ~InExcludeList

\* C15: the calls of an ADD are made in the order gate, metadata query,
\* eligibility rules, NewRedirect, executor, each at most once: the executor
\* runs only after a successful NewRedirect, NewRedirect only after the
\* rules ran on the metadata of a successful query, the query only after a
\* gate that found a non-empty pod name and a non-empty namespace that is
\* not excluded; a call that returned a fatal error is the last one.
C15_StagesInOrder ==
    cmd = "ADD" =>
        /\ \A i, j \in DOMAIN calls :
              i < j => StageRank(calls[i].fn) < StageRank(calls[j].fn)
        /\ ExecutorCalls > 0 => Succeeded("NewRedirect")
        /\ (pc = "redirect" \/ Called("NewRedirect")) =>
              (Called("annotations[inject]") /\ Called("annotations[status]"))
        /\ (pc = "NewRedirect" \/ Called("annotations[status]")) =>
              Succeeded("getKubePodInfo")
        /\ (pc = "checkAnnotations" \/ Called("getKubePodInfo")) =>
              Succeeded("newKubeClient")
        /\ (pc \in {"newKubeClient", "getKubePodInfo"} \/ Called("newKubeClient")) =>
              GatePassed
        /\ \A i \in DOMAIN calls :
              (calls[i].err # "nil" /\ calls[i].fn # "setupRedirect") =>
                  (i = Len(calls) /\ pc = "done" /\ ret = calls[i].err)

\* an ADD that went through every stage
C15_Witness ==
    /\ cmd = "ADD"
    /\ pc = "done"
    /\ Len(calls) = 9
    /\ Called("doRedirect")
    /\ ret = "nil"

\* C16: whether the executor runs does not depend on the override: after the
\* redirect step an ADD has called exactly one executor when NewRedirect
\* succeeded and none otherwise.  Which one depends on the override alone:
\* setupRedirect when it is set (doRedirect is then never called), doRedirect
\* when it is nil.  The executor is handed the network namespace of the
\* invocation and the ports of the pod as the metadata query returned them.
C16_OverrideSwapsExecutorOnly ==
    cmd = "ADD" =>
        /\ ExecutorCalls = IF Succeeded("NewRedirect") /\ pc # "redirect" THEN 1 ELSE 0
        /\ Len(applied) = ExecutorCalls
        /\ setupRedirect # "nil" => ~Called("doRedirect")
        /\ setupRedirect = "nil" => ~Called("setupRedirect")
        /\ ExecutorCalls = 1 =>
              /\ applied[1].fn = IF setupRedirect = "nil" THEN "doRedirect"
                                 ELSE "setupRedirect"
              /\ applied[1].netns = Netns
              /\ applied[1].ports = pod.ports

\* the override has been handed ports with a duplicate, out of numeric order
C16_Witness ==
    /\ cmd = "ADD"
    /\ setupRedirect # "nil"
    /\ Called("setupRedirect")
    /\ applied[1].ports = <<"443", "80", "443">>
    /\ pc = "done"
====
